---- MODULE Spec2Model ----
(***************************************************************************)
(* examples/nlp/bert_pretraining.py: the BERT pretraining driver script.   *)
(* The script is one sequential program.  Each action below is one block   *)
(* of the script; pc names the block that runs next.  The command line,    *)
(* the installed packages, the tokenizer model, the training corpus and    *)
(* the file system are the script's inputs.                                *)
(***************************************************************************)
EXTENDS Integers, Sequences, FiniteSets, TLC

\* ------------------------------------------------------------- bounds
MaxVocab == 17
MaxData == 9
MaxBatch == 2
MaxGpus == 2
MaxAccum == 2
MaxEpochs == 2
MaxRuns == 2

\* ------------------------------------------------------ Python values
\* None, and a Python name that has not been bound yet.
None == [isNone |-> TRUE]
Some(v) == [isNone |-> FALSE, v |-> v]
Unbound == [unbound |-> TRUE]

\* A float given on the command line as the decimal m * 10^-s.
Dec(m, s) == [m |-> m, s |-> s]

RECURSIVE Pow10(_)
Pow10(k) == IF k = 0 THEN 1 ELSE 10 * Pow10(k - 1)

\* Number of decimal digits of a natural number.
RECURSIVE NumDigits(_)
NumDigits(n) == IF n < 10 THEN 1 ELSE 1 + NumDigits(n \div 10)

\* The decimal with its trailing fractional zeros removed: 0.010 and 0.01
\* are the same float.
RECURSIVE Normalise(_)
Normalise(d) ==
    IF d.s > 0 /\ d.m % 10 = 0 THEN Normalise(Dec(d.m \div 10, d.s - 1)) ELSE d

RECURSIVE Zeros(_)
Zeros(k) == IF k <= 0 THEN "" ELSE "0" \o Zeros(k - 1)

\* n written with exactly w digits (leading zeros), "" when w = 0.
ZeroPad(n, w) == IF w = 0 THEN "" ELSE Zeros(w - NumDigits(n)) \o ToString(n)

\* str() of a float: the shortest decimal that reads back as the value;
\* fixed notation while the decimal exponent is in -4 .. 15, otherwise
\* scientific notation with an exponent of at least two digits.
PyFloatStr(d) ==
    LET n == Normalise(d)
        nd == NumDigits(n.m)
        e == nd - n.s - 1
    IN  IF n.m = 0 THEN "0.0"
        ELSE IF n.s = 0 THEN ToString(n.m) \o ".0"
        ELSE IF e >= -4
             THEN ToString(n.m \div Pow10(n.s)) \o "."
                  \o ZeroPad(n.m % Pow10(n.s), n.s)
        ELSE LET lead == n.m \div Pow10(nd - 1)
                 rest == n.m % Pow10(nd - 1)
             IN  ToString(lead)
                 \o (IF nd > 1 THEN "." \o ZeroPad(rest, nd - 1) ELSE "")
                 \o "e-" \o ZeroPad(-e, IF -e < 10 THEN 2 ELSE NumDigits(-e))

\* A value handed to str.format, tagged with its Python type.
PyInt(i) == [t |-> "int", i |-> i]
PyFloat(d) == [t |-> "float", d |-> d]
PyString(s) == [t |-> "str", s |-> s]

\* format(value, ""), which is str(value).
PyStr(x) ==
    CASE x.t = "int" -> ToString(x.i)
      [] x.t = "float" -> PyFloatStr(x.d)
      [] x.t = "str" -> x.s

\* A format string as its pieces: literal text and replacement fields {k}.
Lit(s) == [field |-> FALSE, text |-> s]
Field(k) == [field |-> TRUE, index |-> k]

\* str.format: every replacement field {k} becomes str() of the k-th
\* positional argument, counted from 0.
RECURSIVE StrFormat(_, _)
StrFormat(pieces, argv) ==
    IF pieces = <<>> THEN ""
    ELSE LET p == Head(pieces)
         IN  (IF p.field THEN PyStr(argv[p.index + 1]) ELSE p.text)
             \o StrFormat(Tail(pieces), argv)

NameTemplate ==
    << Lit("BERT-H"), Field(0), Lit("-D"), Field(1), Lit("-lr"), Field(2),
       Lit("-opt"), Field(3), Lit("-warmup"), Field(4), Lit("-bs"), Field(5),
       Lit("-e"), Field(6), Lit("-b2"), Field(7) >>

\* ------------------------------------------------------------- inputs
\* The argparse defaults of the options the script reads.
DefaultArgs ==
    [ lr |-> Dec(1, 2), beta2 |-> Dec(25, 2), optimizer |-> "novograd",
      lr_decay_policy |-> "cosine", lr_warmup_proportion |-> Dec(5, 2),
      batch_size |-> 64, d_model |-> 768, num_heads |-> 12, num_gpus |-> 1,
      num_epochs |-> 10, eval_batch_size |-> 16,
      checkpoint_directory |-> "./checkpoint",
      tensorboard_filename |-> None, batch_per_step |-> 1 ]

Supported == {"poly", "cosine", "noam"}
\* Policy names the option accepts (any string): the supported ones and
\* two that are not.
PolicyNames == Supported \cup {"linear", "Cosine"}

\* What the script reads from outside the command line.
\*   tb_installed      whether "import tensorboardX" finds the package
\*   tokenizer_vocab   tokenizer.vocab_size once the special tokens are in
\*   train_size        len(train_data_layer)
DefaultEnv == [tb_installed |-> TRUE, tokenizer_vocab |-> 30522, train_size |-> MaxData]

\* bert_model.config as to_json_file writes it.
ConfigOf(m) == [vocab_size |-> m.vocab_size, hidden_size |-> m.d_model,
                num_attention_heads |-> m.num_heads]
\* A config file left by an earlier run with other settings.
OldConfig == [vocab_size |-> 8, hidden_size |-> 512, num_attention_heads |-> 8]

PathJoin(a, b) == IF a = "" THEN b ELSE a \o "/" \o b
ConfigPath(a) == PathJoin(a.checkpoint_directory, "bert-config.json")

\* File systems the script can start in: dirs is the set of directories,
\* files maps each regular file to its content.
EmptyFiles == [p \in {} |-> OldConfig]
FsAbsent == [dirs |-> {}, files |-> EmptyFiles]
FsDirOnly(a) == [dirs |-> {a.checkpoint_directory}, files |-> EmptyFiles]
FsWithConfig(a) == [dirs |-> {a.checkpoint_directory},
                    files |-> [p \in {ConfigPath(a)} |-> OldConfig]]
FsDirIsFile(a) == [dirs |-> {},
                   files |-> [p \in {a.checkpoint_directory} |-> OldConfig]]
FileSystems(a) == {FsAbsent, FsDirOnly(a), FsWithConfig(a), FsDirIsFile(a)}

Exists(f, p) == p \in f.dirs \/ p \in DOMAIN f.files

\* Inputs that decide which way the script goes, all combinations.
ControlInputs ==
    { [args |-> [DefaultArgs EXCEPT !.lr_decay_policy = p,
                                    !.tensorboard_filename = t],
       env |-> [DefaultEnv EXCEPT !.tb_installed = b],
       fs |-> f] :
        p \in PolicyNames, t \in {None, Some("my-run"), Some("")},
        b \in BOOLEAN, f \in FileSystems(DefaultArgs) }

\* Inputs of the step count.
StepInputs ==
    { [args |-> [DefaultArgs EXCEPT !.lr_decay_policy = p, !.batch_size = bs,
                                    !.num_gpus = g, !.batch_per_step = a,
                                    !.num_epochs = e,
                                    !.lr_warmup_proportion = w],
       env |-> [DefaultEnv EXCEPT !.train_size = n],
       fs |-> FsAbsent] :
        p \in {"poly", "noam", "linear"}, bs \in 1..MaxBatch, g \in 0..MaxGpus,
        a \in 1..MaxAccum, e \in 1..MaxEpochs, w \in {Dec(5, 2), Dec(1, 1)},
        n \in 0..MaxData }

\* Tokenizer sizes.
VocabInputs ==
    { [args |-> [DefaultArgs EXCEPT !.lr_decay_policy = p],
       env |-> [DefaultEnv EXCEPT !.tokenizer_vocab = n, !.tb_installed = b],
       fs |-> f] :
        p \in {"cosine", "linear"}, n \in (0..MaxVocab) \cup {30522},
        b \in BOOLEAN, f \in {FsAbsent, FsWithConfig(DefaultArgs)} }

\* Inputs of the run name.
NameInputs ==
    { [args |-> [DefaultArgs EXCEPT !.num_heads = h, !.d_model = d, !.lr = l,
                                    !.optimizer = o, !.lr_decay_policy = p,
                                    !.batch_size = bs, !.num_epochs = e,
                                    !.beta2 = b2, !.tensorboard_filename = t],
       env |-> DefaultEnv,
       fs |-> FsDirOnly(DefaultArgs)] :
        h \in {12, 16}, d \in {768, 1024},
        l \in {Dec(1, 2), Dec(10, 3), Dec(1, 0), Dec(5, 5), Dec(125, 6), Dec(125, 7)},
        o \in {"novograd", "adam"}, p \in {"cosine", "noam"},
        bs \in {MaxBatch, 64}, e \in {MaxEpochs, 10},
        b2 \in {Dec(25, 2), Dec(999, 3)}, t \in {None, Some("my-run")} }

Inputs == ControlInputs \cup StepInputs \cup VocabInputs \cup NameInputs

\* -------------------------------------------------------------- state
VARIABLES
    pc,              \* the block of the script that runs next
    run,             \* which execution of the script this is
    error,           \* the uncaught exception that ended the run, or None
    args,            \* args = parser.parse_args()
    env,             \* the packages, tokenizer and corpus the run finds
    fs,              \* the file system, which outlives a run
    stdout,          \* what the script printed
    name,
    tb_writer,
    vocab_size,
    modules,         \* the neural modules constructed, by variable name
    nextParam,       \* parameter stores allocated so far
    tensors,         \* the tensors of the graph, by variable name
    callbacks,       \* the callbacks constructed, by variable name
    steps_per_epoch,
    lr_policy,
    trainCalls       \* the calls of optimizer.train, in order

vars == << pc, run, error, args, env, fs, stdout, name, tb_writer, vocab_size,
           modules, nextParam, tensors, callbacks, steps_per_epoch, lr_policy,
           trainCalls >>

NoModules == [n \in {} |-> None]

\* The state of a fresh process: nothing bound but args.
Fresh ==
    /\ pc = "name"
    /\ error = None
    /\ stdout = <<>>
    /\ name = Unbound
    /\ tb_writer = Unbound
    /\ vocab_size = Unbound
    /\ modules = NoModules
    /\ nextParam = 0
    /\ tensors = NoModules
    /\ callbacks = NoModules
    /\ steps_per_epoch = Unbound
    /\ lr_policy = Unbound
    /\ trainCalls = <<>>

Init ==
    /\ \E i \in Inputs : /\ args = i.args
                         /\ env = i.env
                         /\ fs = i.fs
    /\ run = 1
    /\ Fresh

\* The blocks of the script in program order; "done" is the normal exit.
Blocks ==
    << "name", "tb_writer", "tokenizer", "modules", "tie", "data",
       "train_graph", "eval_graph", "callbacks", "steps", "callback_dev",
       "policy", "mkdir", "save", "train", "done" >>
Pos(l) == CHOOSE i \in 1..Len(Blocks) : Blocks[i] = l

\* Block l is the next to run.
At(l) == pc = l /\ error = None
\* Block l has run to its end in this execution.
Past(l) == Pos(pc) > Pos(l)

\* An uncaught exception ends the process in the block that raised it.
Raise(e) == pc' = pc /\ error' = Some(e)
\* The process has ended, normally or by an exception.
Exited == pc = "done" \/ error # None

\* -------------------------------------------------------------- steps
\* RunName with the explicit name tested for truth instead of for None.
RunNameIfTruthy(a) ==
    LET derived ==
            StrFormat(NameTemplate,
                      << PyInt(a.num_heads), PyInt(a.d_model), PyFloat(a.lr),
                         PyString(a.optimizer), PyString(a.lr_decay_policy),
                         PyInt(a.batch_size), PyInt(a.num_epochs),
                         PyFloat(a.beta2) >>)
    IN  IF a.tensorboard_filename # None /\ a.tensorboard_filename.v # ""
        THEN a.tensorboard_filename.v
        ELSE derived

\* name = "BERT-H{0}-...".format(...); the explicit name wins when given.
RunName(a) ==
    LET derived ==
            StrFormat(NameTemplate,
                      << PyInt(a.num_heads), PyInt(a.d_model), PyFloat(a.lr),
                         PyString(a.optimizer), PyString(a.lr_decay_policy),
                         PyInt(a.batch_size), PyInt(a.num_epochs),
                         PyFloat(a.beta2) >>)
    IN  IF a.tensorboard_filename # None THEN a.tensorboard_filename.v
        ELSE derived

Namer ==
    /\ At("name")
    /\ name' = RunName(args)
    /\ pc' = "tb_writer"
    /\ UNCHANGED << run, error, args, env, fs, stdout, tb_writer, vocab_size,
                    modules, nextParam, tensors, callbacks, steps_per_epoch,
                    lr_policy, trainCalls >>

\* try: import tensorboardX; tb_writer = tensorboardX.SummaryWriter(name)
\* except ModuleNotFoundError: tb_writer = None; print(...)
SummaryWriter(logdir) == [isNone |-> FALSE, logdir |-> logdir]

\* OpenWriter without the except clause.
OpenWriterNoFallback ==
    /\ At("tb_writer")
    /\ IF env.tb_installed
       THEN /\ tb_writer' = SummaryWriter(name)
            /\ pc' = "tokenizer"
            /\ error' = error
       ELSE /\ tb_writer' = tb_writer
            /\ Raise("ModuleNotFoundError")
    /\ UNCHANGED << run, args, env, fs, stdout, name, vocab_size, modules,
                    nextParam, tensors, callbacks, steps_per_epoch, lr_policy,
                    trainCalls >>

OpenWriter ==
    /\ At("tb_writer")
    /\ IF env.tb_installed
       THEN /\ tb_writer' = SummaryWriter(name)
            /\ stdout' = stdout
       ELSE /\ tb_writer' = None
            /\ stdout' = Append(stdout, "Tensorboard is not available")
    /\ pc' = "tokenizer"
    /\ UNCHANGED << run, error, args, env, fs, name, vocab_size, modules,
                    nextParam, tensors, callbacks, steps_per_epoch, lr_policy,
                    trainCalls >>

\* CeilDiv as "the quotient plus one".
CeilDivPlusOne(a, b) == (a \div b) + 1

\* math.ceil(a / b) for a >= 0 and b > 0 (the quotient a / b is exact in
\* double precision for every a below 2^53 when b is a power of two).
CeilDiv(a, b) == IF a % b = 0 THEN a \div b ELSE (a \div b) + 1

\* vocab_size = 8 * math.ceil(tokenizer.vocab_size / 8)
VocabSize(n) == 8 * CeilDiv(n, 8)

Tokenizer ==
    /\ At("tokenizer")
    /\ vocab_size' = VocabSize(env.tokenizer_vocab)
    /\ pc' = "modules"
    /\ UNCHANGED << run, error, args, env, fs, stdout, name, tb_writer, modules,
                    nextParam, tensors, callbacks, steps_per_epoch, lr_policy,
                    trainCalls >>

\* The constructors of the encoder, the two heads, the two losses and the
\* aggregator.  Every layer with weights gets a parameter store of its own.
BuildModules ==
    /\ At("modules")
    /\ modules' =
        ("bert_model" :>
            [class |-> "BERT", vocab_size |-> vocab_size,
             d_model |-> args.d_model, num_heads |-> args.num_heads,
             word_embeddings_weight |-> nextParam + 1]) @@
        ("mlm_log_softmax" :>
            [class |-> "TransformerLogSoftmaxNM", vocab_size |-> vocab_size,
             d_model |-> args.d_model, dense_weight |-> nextParam + 2]) @@
        ("mlm_loss" :> [class |-> "MaskedLanguageModelingLossNM"]) @@
        ("nsp_log_softmax" :>
            [class |-> "SentenceClassificationLogSoftmaxNM",
             d_model |-> args.d_model, num_classes |-> 2,
             dense_weight |-> nextParam + 3]) @@
        ("nsp_loss" :> [class |-> "NextSentencePredictionLossNM"]) @@
        ("bert_loss" :> [class |-> "LossAggregatorNM", num_inputs |-> 2]) @@
        modules
    /\ nextParam' = nextParam + 3
    /\ pc' = "tie"
    /\ UNCHANGED << run, error, args, env, fs, stdout, name, tb_writer,
                    vocab_size, tensors, callbacks, steps_per_epoch, lr_policy,
                    trainCalls >>

\* TieWeights copying the values into the head's own store.
TieWeightsByCopy ==
    /\ At("tie")
    /\ modules' = modules
    /\ pc' = "data"
    /\ UNCHANGED << run, error, args, env, fs, stdout, name, tb_writer,
                    vocab_size, nextParam, tensors, callbacks, steps_per_epoch,
                    lr_policy, trainCalls >>

\* mlm_log_softmax.log_softmax.dense.weight =
\*     bert_model.bert.embeddings.word_embeddings.weight
TieWeights ==
    /\ At("tie")
    /\ modules' = [modules EXCEPT !["mlm_log_softmax"].dense_weight =
                       modules["bert_model"].word_embeddings_weight]
    /\ pc' = "data"
    /\ UNCHANGED << run, error, args, env, fs, stdout, name, tb_writer,
                    vocab_size, nextParam, tensors, callbacks, steps_per_epoch,
                    lr_policy, trainCalls >>

DataLayers ==
    /\ At("data")
    /\ modules' =
        ("train_data_layer" :>
            [class |-> "BertPretrainingDataLayer", name |-> "train",
             batch_size |-> args.batch_size]) @@
        ("dev_data_layer" :>
            [class |-> "BertPretrainingDataLayer", name |-> "dev",
             batch_size |-> args.eval_batch_size]) @@
        modules
    /\ pc' = "train_graph"
    /\ UNCHANGED << run, error, args, env, fs, stdout, name, tb_writer,
                    vocab_size, nextParam, tensors, callbacks, steps_per_epoch,
                    lr_policy, trainCalls >>

\* The output tensor `port` of a call of module instance `mod` on `inputs`.
Out(mod, port, inputs) == [producer |-> mod, port |-> port, inputs |-> inputs]

\* training pipeline
TrainPipeline ==
    /\ At("train_graph")
    /\ LET input_ids == Out("train_data_layer", "input_ids", <<>>)
           input_type_ids == Out("train_data_layer", "input_type_ids", <<>>)
           input_mask == Out("train_data_layer", "input_mask", <<>>)
           output_ids == Out("train_data_layer", "output_ids", <<>>)
           output_mask == Out("train_data_layer", "output_mask", <<>>)
           hidden_states ==
               Out("bert_model", "hidden_states",
                   << input_ids, input_type_ids, input_mask >>)
           train_mlm_log_probs ==
               Out("mlm_log_softmax", "log_probs", << hidden_states >>)
           train_loss ==
               Out("mlm_loss", "loss",
                   << train_mlm_log_probs, output_ids, output_mask >>)
       IN  tensors' = ("hidden_states" :> hidden_states) @@
                      ("train_mlm_log_probs" :> train_mlm_log_probs) @@
                      ("train_loss" :> train_loss) @@ tensors
    /\ pc' = "eval_graph"
    /\ UNCHANGED << run, error, args, env, fs, stdout, name, tb_writer,
                    vocab_size, modules, nextParam, callbacks, steps_per_epoch,
                    lr_policy, trainCalls >>

\* evaluation pipeline
EvalPipeline ==
    /\ At("eval_graph")
    /\ LET input_ids_ == Out("dev_data_layer", "input_ids", <<>>)
           input_type_ids_ == Out("dev_data_layer", "input_type_ids", <<>>)
           input_mask_ == Out("dev_data_layer", "input_mask", <<>>)
           output_ids_ == Out("dev_data_layer", "output_ids", <<>>)
           output_mask_ == Out("dev_data_layer", "output_mask", <<>>)
           hidden_states_ ==
               Out("bert_model", "hidden_states",
                   << input_ids_, input_type_ids_, input_mask_ >>)
           dev_mlm_log_probs ==
               Out("mlm_log_softmax", "log_probs", << hidden_states_ >>)
           dev_mlm_loss ==
               Out("mlm_loss", "loss",
                   << dev_mlm_log_probs, output_ids_, output_mask_ >>)
       IN  tensors' = ("hidden_states_" :> hidden_states_) @@
                      ("dev_mlm_log_probs" :> dev_mlm_log_probs) @@
                      ("dev_mlm_loss" :> dev_mlm_loss) @@ tensors
    /\ pc' = "callbacks"
    /\ UNCHANGED << run, error, args, env, fs, stdout, name, tb_writer,
                    vocab_size, modules, nextParam, callbacks, steps_per_epoch,
                    lr_policy, trainCalls >>

\* callback_loss and callback_ckpt
LossCallbacks ==
    /\ At("callbacks")
    /\ callbacks' =
        ("callback_loss" :>
            [class |-> "SimpleLossLoggerCallback",
             tensors |-> << tensors["train_loss"] >>,
             tb_writer |-> tb_writer]) @@
        ("callback_ckpt" :>
            [class |-> "CheckpointCallback",
             folder |-> args.checkpoint_directory]) @@
        callbacks
    /\ pc' = "steps"
    /\ UNCHANGED << run, error, args, env, fs, stdout, name, tb_writer,
                    vocab_size, modules, nextParam, tensors, steps_per_epoch,
                    lr_policy, trainCalls >>

\* int(a / b): the true quotient cut towards zero (b # 0).
Abs(x) == IF x < 0 THEN -x ELSE x
IntOfQuotient(a, b) ==
    IF (a >= 0) = (b > 0) THEN Abs(a) \div Abs(b) ELSE -(Abs(a) \div Abs(b))

\* BatchDivisor without the accumulation count.
BatchDivisorNoAccum(a) == a.batch_size * a.num_gpus

\* The divisor of steps_per_epoch.
BatchDivisor(a) == a.batch_size * a.num_gpus * a.batch_per_step

\* steps_per_epoch = int(train_data_size / (batch_size * num_gpus *
\*                                         batch_per_step))
StepsPerEpoch ==
    /\ At("steps")
    /\ IF BatchDivisor(args) = 0
       THEN /\ Raise("ZeroDivisionError")
            /\ steps_per_epoch' = steps_per_epoch
       ELSE /\ steps_per_epoch' =
                   IntOfQuotient(env.train_size, BatchDivisor(args))
            /\ pc' = "callback_dev"
            /\ error' = error
    /\ UNCHANGED << run, args, env, fs, stdout, name, tb_writer, vocab_size,
                    modules, nextParam, tensors, callbacks, lr_policy,
                    trainCalls >>

CallbackDev ==
    /\ At("callback_dev")
    /\ callbacks' =
        ("callback_dev" :>
            [class |-> "EvaluatorCallback",
             eval_tensors |-> << tensors["dev_mlm_loss"] >>,
             eval_step |-> steps_per_epoch,
             tb_writer |-> tb_writer]) @@
        callbacks
    /\ pc' = "policy"
    /\ UNCHANGED << run, error, args, env, fs, stdout, name, tb_writer,
                    vocab_size, modules, nextParam, tensors, steps_per_epoch,
                    lr_policy, trainCalls >>

\* The constructors of nemo.utils.lr_policies, as the script calls them.
Annealing(class, total_steps, warmup_ratio) ==
    [class |-> class, total_steps |-> total_steps,
     warmup_ratio |-> warmup_ratio]

\* SelectPolicy with cosine as the fallback of an unknown name.
SelectPolicyWithDefault ==
    /\ At("policy")
    /\ lr_policy' =
           Annealing(IF args.lr_decay_policy = "poly" THEN "SquareAnnealing"
                     ELSE IF args.lr_decay_policy = "noam"
                     THEN "InverseSquareRootAnnealing"
                     ELSE "CosineAnnealing",
                     args.num_epochs * steps_per_epoch,
                     args.lr_warmup_proportion)
    /\ pc' = "mkdir"
    /\ UNCHANGED << run, error, args, env, fs, stdout, name, tb_writer,
                    vocab_size, modules, nextParam, tensors, callbacks,
                    steps_per_epoch, trainCalls >>

\* define learning rate decay policy
SelectPolicy ==
    /\ At("policy")
    /\ IF args.lr_decay_policy = "poly"
       THEN /\ lr_policy' = Annealing("SquareAnnealing",
                                      args.num_epochs * steps_per_epoch,
                                      args.lr_warmup_proportion)
            /\ pc' = "mkdir"
            /\ error' = error
       ELSE IF args.lr_decay_policy = "cosine"
       THEN /\ lr_policy' = Annealing("CosineAnnealing",
                                      args.num_epochs * steps_per_epoch,
                                      args.lr_warmup_proportion)
            /\ pc' = "mkdir"
            /\ error' = error
       ELSE IF args.lr_decay_policy = "noam"
       THEN /\ lr_policy' = Annealing("InverseSquareRootAnnealing",
                                      args.num_epochs * steps_per_epoch,
                                      args.lr_warmup_proportion)
            /\ pc' = "mkdir"
            /\ error' = error
       ELSE /\ Raise("NotImplementedError")
            /\ lr_policy' = lr_policy
    /\ UNCHANGED << run, args, env, fs, stdout, name, tb_writer, vocab_size,
                    modules, nextParam, tensors, callbacks, steps_per_epoch,
                    trainCalls >>

\* if not os.path.exists(args.checkpoint_directory): os.makedirs(...)
MakeDir ==
    /\ At("mkdir")
    /\ fs' = IF ~Exists(fs, args.checkpoint_directory)
             THEN [fs EXCEPT !.dirs = @ \cup {args.checkpoint_directory}]
             ELSE fs
    /\ pc' = "save"
    /\ UNCHANGED << run, error, args, env, stdout, name, tb_writer, vocab_size,
                    modules, nextParam, tensors, callbacks, steps_per_epoch,
                    lr_policy, trainCalls >>

\* SaveConfig without the existence test.
SaveConfigAlways ==
    /\ At("save")
    /\ IF args.checkpoint_directory \in fs.dirs
       THEN /\ fs' = [fs EXCEPT !.files =
                         (ConfigPath(args) :> ConfigOf(modules["bert_model"]))
                         @@ @]
            /\ pc' = "train"
            /\ error' = error
       ELSE /\ Raise("NotADirectoryError")
            /\ fs' = fs
    /\ UNCHANGED << run, args, env, stdout, name, tb_writer, vocab_size,
                    modules, nextParam, tensors, callbacks, steps_per_epoch,
                    lr_policy, trainCalls >>

\* if not os.path.exists(config_path): bert_model.config.to_json_file(...)
\* Opening the file for writing fails when its directory is not one.
SaveConfig ==
    /\ At("save")
    /\ IF Exists(fs, ConfigPath(args))
       THEN /\ fs' = fs
            /\ pc' = "train"
            /\ error' = error
       ELSE IF args.checkpoint_directory \in fs.dirs
       THEN /\ fs' = [fs EXCEPT !.files =
                         (ConfigPath(args) :> ConfigOf(modules["bert_model"]))
                         @@ @]
            /\ pc' = "train"
            /\ error' = error
       ELSE /\ Raise("NotADirectoryError")
            /\ fs' = fs
    /\ UNCHANGED << run, args, env, stdout, name, tb_writer, vocab_size,
                    modules, nextParam, tensors, callbacks, steps_per_epoch,
                    lr_policy, trainCalls >>

\* Train with the lr_policy argument left out (its default is None).
TrainWithoutPolicy ==
    /\ At("train")
    /\ trainCalls' = Append(trainCalls,
        [tensors_to_optimize |-> << tensors["train_loss"] >>,
         lr_policy |-> None,
         callbacks |-> << callbacks["callback_loss"],
                          callbacks["callback_ckpt"],
                          callbacks["callback_dev"] >>,
         batches_per_step |-> args.batch_per_step,
         optimizer |-> args.optimizer,
         optimization_params |->
             [batch_size |-> args.batch_size, num_epochs |-> args.num_epochs,
              lr |-> args.lr, beta2 |-> args.beta2]])
    /\ pc' = "done"
    /\ UNCHANGED << run, error, args, env, fs, stdout, name, tb_writer,
                    vocab_size, modules, nextParam, tensors, callbacks,
                    steps_per_epoch, lr_policy >>

\* Train with the dev loss optimized as well.
TrainOnBothLosses ==
    /\ At("train")
    /\ trainCalls' = Append(trainCalls,
        [tensors_to_optimize |-> << tensors["train_loss"],
                                    tensors["dev_mlm_loss"] >>,
         lr_policy |-> lr_policy,
         callbacks |-> << callbacks["callback_loss"],
                          callbacks["callback_ckpt"],
                          callbacks["callback_dev"] >>,
         batches_per_step |-> args.batch_per_step,
         optimizer |-> args.optimizer,
         optimization_params |->
             [batch_size |-> args.batch_size, num_epochs |-> args.num_epochs,
              lr |-> args.lr, beta2 |-> args.beta2]])
    /\ pc' = "done"
    /\ UNCHANGED << run, error, args, env, fs, stdout, name, tb_writer,
                    vocab_size, modules, nextParam, tensors, callbacks,
                    steps_per_epoch, lr_policy >>

\* optimizer = neural_factory.get_trainer(); optimizer.train(...)
Train ==
    /\ At("train")
    /\ trainCalls' = Append(trainCalls,
        [tensors_to_optimize |-> << tensors["train_loss"] >>,
         lr_policy |-> lr_policy,
         callbacks |-> << callbacks["callback_loss"],
                          callbacks["callback_ckpt"],
                          callbacks["callback_dev"] >>,
         batches_per_step |-> args.batch_per_step,
         optimizer |-> args.optimizer,
         optimization_params |->
             [batch_size |-> args.batch_size, num_epochs |-> args.num_epochs,
              lr |-> args.lr, beta2 |-> args.beta2]])
    /\ pc' = "done"
    /\ UNCHANGED << run, error, args, env, fs, stdout, name, tb_writer,
                    vocab_size, modules, nextParam, tensors, callbacks,
                    steps_per_epoch, lr_policy >>

\* The script is started again with the same command line, in the file
\* system the earlier run left.
Restart ==
    /\ Exited
    /\ run < MaxRuns
    /\ run' = run + 1
    /\ pc' = "name"
    /\ error' = None
    /\ stdout' = <<>>
    /\ name' = Unbound
    /\ tb_writer' = Unbound
    /\ vocab_size' = Unbound
    /\ modules' = NoModules
    /\ nextParam' = 0
    /\ tensors' = NoModules
    /\ callbacks' = NoModules
    /\ steps_per_epoch' = Unbound
    /\ lr_policy' = Unbound
    /\ trainCalls' = <<>>
    /\ UNCHANGED << args, env, fs >>

Next ==
    \/ Namer
    \/ OpenWriter
    \/ Tokenizer
    \/ BuildModules
    \/ TieWeights
    \/ DataLayers
    \/ TrainPipeline
    \/ EvalPipeline
    \/ LossCallbacks
    \/ StepsPerEpoch
    \/ CallbackDev
    \/ SelectPolicy
    \/ MakeDir
    \/ SaveConfig
    \/ Train
    \/ Restart

Spec == Init /\ [][Next]_vars

\* ------------------------------------------------------------- claims

\* C1: with a schedule-policy name outside {"poly", "cosine", "noam"} the
\* run never gets past the policy block: no policy is bound (no fallback),
\* train is never called, the run never exits normally, and the exception
\* raised in the policy block is NotImplementedError.
C1_UnsupportedPolicyFails ==
    args.lr_decay_policy \notin {"poly", "cosine", "noam"} =>
        /\ lr_policy = Unbound
        /\ trainCalls = <<>>
        /\ pc # "done"
        /\ ~Past("policy")
        /\ (pc = "policy" /\ error # None => error = Some("NotImplementedError"))

C1_Witness ==
    /\ args.lr_decay_policy = "linear"
    /\ pc = "policy"
    /\ error = Some("NotImplementedError")
    /\ trainCalls = <<>>

\* C2: the vocabulary size given to the encoder and to the MLM head is the
\* smallest multiple of 8 that is at least the tokenizer's vocabulary size
\* (30522 gives 30528).
C2_VocabIsNextMultipleOf8 ==
    /\ Past("tokenizer") =>
        /\ vocab_size % 8 = 0
        /\ vocab_size >= env.tokenizer_vocab
        /\ vocab_size - env.tokenizer_vocab < 8
        /\ (env.tokenizer_vocab = 30522 => vocab_size = 30528)
    /\ Past("modules") =>
        /\ modules["bert_model"].vocab_size = vocab_size
        /\ modules["mlm_log_softmax"].vocab_size = vocab_size

C2_Witness ==
    /\ Past("modules")
    /\ env.tokenizer_vocab = 30522
    /\ modules["bert_model"].vocab_size = 30528
    /\ modules["mlm_log_softmax"].vocab_size = 30528

\* C3: the save step never overwrites an existing file; it changes the file
\* system only by creating the checkpoint directory when that path does not
\* exist and by writing bert-config.json when that file does not exist; and
\* a second run of the script leaves the file system as the first left it.
C3_SaveNeverOverwrites ==
    [][ /\ \A p \in DOMAIN fs.files :
              p \in DOMAIN fs'.files /\ fs'.files[p] = fs.files[p]
        /\ fs.dirs \subseteq fs'.dirs
        /\ fs'.dirs # fs.dirs =>
              /\ pc = "mkdir"
              /\ ~Exists(fs, args.checkpoint_directory)
              /\ fs'.dirs = fs.dirs \cup {args.checkpoint_directory}
              /\ fs'.files = fs.files
        /\ fs'.files # fs.files =>
              /\ pc = "save"
              /\ ~Exists(fs, ConfigPath(args))
              /\ DOMAIN fs'.files = DOMAIN fs.files \cup {ConfigPath(args)}
              /\ fs'.dirs = fs.dirs
        /\ run >= 2 => fs' = fs
      ]_vars

C3_Witness ==
    /\ run = 2
    /\ Past("save")
    /\ ConfigPath(args) \in DOMAIN fs.files
    /\ fs.files[ConfigPath(args)] = OldConfig
    /\ fs.files[ConfigPath(args)] # ConfigOf(modules["bert_model"])

\* str() of the floats of the inputs, as Python prints them.
ExpectedFloatStr(d) ==
    CASE d = Dec(1, 2) -> "0.01"
      [] d = Dec(10, 3) -> "0.01"
      [] d = Dec(1, 0) -> "1.0"
      [] d = Dec(5, 5) -> "5e-05"
      [] d = Dec(125, 6) -> "0.000125"
      [] d = Dec(125, 7) -> "1.25e-05"
      [] d = Dec(25, 2) -> "0.25"
      [] d = Dec(999, 3) -> "0.999"

\* C4: the run name is the explicit name when one is given (tensorboard_filename
\* is not None), otherwise "BERT-H{num_heads}-D{d_model}-lr{lr}-opt{optimizer}-
\* warmup{lr_decay_policy}-bs{batch_size}-e{num_epochs}-b2{beta2}"; it depends
\* on the configuration alone, in the first run and in every later one.
C4_RunNameFromConfig ==
    Past("name") =>
        /\ args.tensorboard_filename # None =>
              name = args.tensorboard_filename.v
        /\ args.tensorboard_filename = None =>
              name = "BERT-H" \o ToString(args.num_heads)
                     \o "-D" \o ToString(args.d_model)
                     \o "-lr" \o ExpectedFloatStr(args.lr)
                     \o "-opt" \o args.optimizer
                     \o "-warmup" \o args.lr_decay_policy
                     \o "-bs" \o ToString(args.batch_size)
                     \o "-e" \o ToString(args.num_epochs)
                     \o "-b2" \o ExpectedFloatStr(args.beta2)
        /\ args = DefaultArgs =>
              name = "BERT-H12-D768-lr0.01-optnovograd-warmupcosine-bs64-e10-b20.25"

C4_Witness ==
    /\ run = 2
    /\ Past("name")
    /\ args.tensorboard_filename = None
    /\ args.lr = Dec(125, 7)
    /\ name = "BERT-H16-D1024-lr1.25e-05-optadam-warmupnoam-bs64-e10-b20.999"

\* The MLM head's projection and the encoder's embedding table are one
\* parameter store.
Tied ==
    modules["mlm_log_softmax"].dense_weight =
        modules["bert_model"].word_embeddings_weight

\* C5: once the tie block has run, the MLM head's projection weight and the
\* encoder's embedding weight name the same parameter store in every later
\* state of the run, the train call included, and no later block of the run
\* rebinds the encoder or the head.
C5_TieHoldsForTheRun ==
    [][ /\ Past("tie")' => Tied'
        /\ Past("tie") /\ run' = run =>
              /\ modules'["bert_model"] = modules["bert_model"]
              /\ modules'["mlm_log_softmax"] = modules["mlm_log_softmax"]
        /\ trainCalls' # <<>> => Tied'
      ]_vars

C5_Witness ==
    /\ pc = "done"
    /\ trainCalls # <<>>
    /\ Tied
    /\ modules["nsp_log_softmax"].dense_weight #
           modules["bert_model"].word_embeddings_weight

\* C6: for a supported name the policy bound is the matching annealing class
\* (poly: square, cosine: cosine, noam: inverse square root), built with the
\* configured warmup fraction and total steps = num_epochs * steps_per_epoch,
\* where steps_per_epoch is the floor of
\* train size / (batch_size * num_gpus * batch_per_step).
C6_PolicyAndStepCount ==
    LET d == args.batch_size * args.num_gpus * args.batch_per_step
    IN  /\ Past("steps") =>
              /\ d > 0
              /\ steps_per_epoch >= 0
              /\ steps_per_epoch * d <= env.train_size
              /\ env.train_size < (steps_per_epoch + 1) * d
        /\ Past("policy") =>
              /\ args.lr_decay_policy = "poly" =>
                     lr_policy.class = "SquareAnnealing"
              /\ args.lr_decay_policy = "cosine" =>
                     lr_policy.class = "CosineAnnealing"
              /\ args.lr_decay_policy = "noam" =>
                     lr_policy.class = "InverseSquareRootAnnealing"
              /\ lr_policy.total_steps = args.num_epochs * steps_per_epoch
              /\ lr_policy.warmup_ratio = args.lr_warmup_proportion

C6_Witness ==
    /\ Past("policy")
    /\ args.lr_decay_policy = "noam"
    /\ lr_policy.class = "InverseSquareRootAnnealing"
    /\ args.batch_per_step = 2
    /\ env.train_size % (args.batch_size * args.num_gpus * args.batch_per_step) # 0
    /\ steps_per_epoch = 2
    /\ lr_policy.total_steps = 4
    /\ lr_policy.warmup_ratio = Dec(1, 1)

\* C7: in every run the policy is bound before the checkpoint directory is
\* created and the config file saved, both blocks have run before train is
\* called, train is called at most once, the policy handed to it is the one
\* bound, and the binding does not change for the rest of the run.
C7_SetupThenOneTrainCall ==
    [][ /\ fs' # fs => lr_policy # Unbound /\ trainCalls' = <<>>
        /\ pc' \in {"mkdir", "save", "train", "done"} => lr_policy' # Unbound
        /\ lr_policy # Unbound /\ run' = run => lr_policy' = lr_policy
        /\ Len(trainCalls') <= 1
        /\ trainCalls' # <<>> =>
              /\ pc' = "done"
              /\ trainCalls'[1].lr_policy = lr_policy'
              /\ trainCalls'[1].lr_policy # Unbound
              /\ args.checkpoint_directory \in fs'.dirs
              /\ ConfigPath(args) \in DOMAIN fs'.files
        /\ trainCalls' # trainCalls /\ run' = run =>
              /\ trainCalls = <<>>
              /\ Past("save")
              /\ fs' = fs
      ]_vars

C7_Witness ==
    /\ pc = "done"
    /\ Len(trainCalls) = 1
    /\ trainCalls[1].lr_policy = lr_policy
    /\ lr_policy.class = "SquareAnnealing"
    /\ run = 1
    /\ fs.files[ConfigPath(args)] = ConfigOf(modules["bert_model"])

\* C8: a missing tensorboardX never ends the run: the writer is None, the
\* notice is printed, no exception comes from the import block, and both the
\* loss logger and the evaluator are built with, and handed to train with,
\* that absent writer; when tensorboardX is installed the writer is a
\* SummaryWriter opened on the run name.
C8_MissingTensorboardIsNotFatal ==
    /\ pc = "tb_writer" => error = None
    /\ error # Some("ModuleNotFoundError")
    /\ Past("tb_writer") =>
          IF env.tb_installed
          THEN /\ tb_writer # None
               /\ tb_writer.logdir = name
               /\ stdout = <<>>
          ELSE /\ tb_writer = None
               /\ stdout = << "Tensorboard is not available" >>
    /\ Past("callbacks") => callbacks["callback_loss"].tb_writer = tb_writer
    /\ Past("callback_dev") => callbacks["callback_dev"].tb_writer = tb_writer
    /\ trainCalls # <<>> =>
          /\ trainCalls[1].callbacks[1].class = "SimpleLossLoggerCallback"
          /\ trainCalls[1].callbacks[1].tb_writer = tb_writer
          /\ trainCalls[1].callbacks[3].class = "EvaluatorCallback"
          /\ trainCalls[1].callbacks[3].tb_writer = tb_writer

C8_Witness ==
    /\ ~env.tb_installed
    /\ pc = "done"
    /\ stdout = << "Tensorboard is not available" >>
    /\ trainCalls[1].callbacks[1].tb_writer = None
    /\ trainCalls[1].callbacks[3].tb_writer = None

\* The module instances a tensor is computed by.
RECURSIVE Producers(_)
Producers(t) ==
    {t.producer} \cup UNION {Producers(t.inputs[i]) : i \in 1..Len(t.inputs)}

\* The tensor t with the data layer `from` replaced by the data layer `to`.
RECURSIVE WithSource(_, _, _)
WithSource(t, from, to) ==
    [producer |-> IF t.producer = from THEN to ELSE t.producer,
     port |-> t.port,
     inputs |-> [i \in 1..Len(t.inputs) |-> WithSource(t.inputs[i], from, to)]]

\* C10: the train loss and the dev loss are computed by the same encoder, MLM
\* head and MLM loss instances and differ only in the data layer; train
\* optimizes exactly the train loss, the dev loss is only evaluated, and no
\* optimized, logged or evaluated tensor comes from the NSP head, the NSP
\* loss or the loss aggregator.
C10_DevIsEvaluationOnly ==
    /\ Past("eval_graph") =>
          /\ Producers(tensors["train_loss"]) =
                 {"mlm_loss", "mlm_log_softmax", "bert_model", "train_data_layer"}
          /\ Producers(tensors["dev_mlm_loss"]) =
                 {"mlm_loss", "mlm_log_softmax", "bert_model", "dev_data_layer"}
          /\ WithSource(tensors["train_loss"], "train_data_layer",
                        "dev_data_layer") = tensors["dev_mlm_loss"]
    /\ trainCalls # <<>> =>
          LET call == trainCalls[1]
              used == {call.tensors_to_optimize[i] :
                          i \in 1..Len(call.tensors_to_optimize)}
                      \cup {call.callbacks[1].tensors[i] :
                          i \in 1..Len(call.callbacks[1].tensors)}
                      \cup {call.callbacks[3].eval_tensors[i] :
                          i \in 1..Len(call.callbacks[3].eval_tensors)}
          IN  /\ call.tensors_to_optimize = << tensors["train_loss"] >>
              /\ call.callbacks[3].eval_tensors = << tensors["dev_mlm_loss"] >>
              /\ \A t \in used :
                    Producers(t) \cap {"nsp_log_softmax", "nsp_loss", "bert_loss"}
                        = {}
              /\ {"nsp_log_softmax", "nsp_loss", "bert_loss"}
                     \subseteq DOMAIN modules

C10_Witness ==
    /\ pc = "done"
    /\ trainCalls[1].tensors_to_optimize = << tensors["train_loss"] >>
    /\ "dev_data_layer" \in Producers(trainCalls[1].callbacks[3].eval_tensors[1])
    /\ "train_data_layer" \notin
           Producers(trainCalls[1].callbacks[3].eval_tensors[1])
    /\ tensors["train_loss"] # tensors["dev_mlm_loss"]

====
